---- MODULE Spec2Model ----
(***************************************************************************)
(* A model of day-one-to-markdown.py: one run of main() over a Day One     *)
(* export archive.  The run is a sequential program; every action below is *)
(* one block of main() (or of Zip), and pc is the position in it.          *)
(*                                                                         *)
(* Representation.                                                         *)
(*   - a JSON object is a function whose domain is its set of keys;        *)
(*   - a uuid is a sequence of one-character strings, so that lower() is a *)
(*     real conversion; a creationDate is <<date part, time part>>;        *)
(*   - a body text is a sequence of tokens [pre, id]: the token's text is  *)
(*     pre \o id, a plain word has pre = "";                               *)
(*   - a path is a sequence of strings (os.path.join appends).             *)
(***************************************************************************)
EXTENDS Naturals, Sequences, FiniteSets, TLC

VARIABLES
    options,        \* argparse result: [journal, destination]
    archive,        \* the export archive at options.path (never written)
    disk,           \* output tree: directory path -> [files, index]
    tmp,            \* the TemporaryDirectory of Zip
    pc,             \* position in main()
    exc,            \* the exception propagating ("" when none)
    status,         \* <<exit status>> once the process has ended, <<>> before
    journal_js,     \* main: journal_js
    destination,    \* main: destination
    data,           \* main: data["entries"] once loaded
    i,              \* index of the entry `post` of the for loop
    post_directory, \* main: post_directory
    content,        \* main: content
    photos,         \* main: photos (a dict)
    pdfs,           \* main: pdfs (a dict)
    k,              \* position of the running .items() iteration
    log,            \* the lines printed so far
    made            \* the directories os.makedirs created, in order

vars == <<options, archive, disk, tmp, pc, exc, status, journal_js, destination,
          data, i, post_directory, content, photos, pdfs, k, log, made>>

-----------------------------------------------------------------------------
(* Bounds of the model *)

MaxEntries == 2
MaxAttachments == 1
MaxTokens == 2

-----------------------------------------------------------------------------
(* Python values *)

NoneValue == "<None>"
EmptyDict == [keys |-> <<>>, val |-> <<>>]

Has(d, key) == key \in DOMAIN d

Put(d, key, v) == [j \in DOMAIN d \cup {key} |-> IF j = key THEN v ELSE d[j]]

Del(d, key) == [j \in DOMAIN d \ {key} |-> d[j]]

RECURSIVE Cat(_)
Cat(s) == IF s = <<>> THEN "" ELSE Head(s) \o Cat(Tail(s))

LowerChar(c) ==
    CASE c = "A" -> "a"
      [] c = "B" -> "b"
      [] c = "C" -> "c"
      [] c = "D" -> "d"
      [] OTHER -> c

Lower(s) == [n \in 1..Len(s) |-> LowerChar(s[n])]

\* dateutil.parser.parse(...).strftime("%Y-%m-%d"): the date part only
DateOf(creationDate) == creationDate[1]

PostDirName(post) == DateOf(post["creationDate"]) \o "-" \o Cat(Lower(post["uuid"]))

-----------------------------------------------------------------------------
(* Attachments: class Photo and class PdfAttachment *)

PhotoPrefix == "dayone-moment://"
PdfPrefix == "dayone-moment:/pdfAttachment/"

\* the default extension of PdfAttachment, used for a photo
PhotoExtOfPdf(rec) == IF Has(rec, "type") THEN "." \o rec["type"] ELSE ".pdf"

PhotoExt(rec) == IF Has(rec, "type") THEN "." \o rec["type"] ELSE ".jpeg"

PdfExt(rec) == IF Has(rec, "type") THEN "." \o rec["type"] ELSE ".pdf"

\* basename reads data["md5"]: only evaluated where the key is present
PhotoBasename(rec) == rec["md5"] \o PhotoExt(rec)

PdfBasename(rec) == rec["md5"] \o PdfExt(rec)

\* path, relative to the extraction directory
PhotoPath(rec) == <<"photos", PhotoBasename(rec)>>

PdfPath(rec) == <<"pdfs", PdfBasename(rec)>>

\* {data["identifier"]: X(dir, data) for data in list}: keys in order of first
\* insertion, a repeated identifier keeps the last record
RECURSIVE DictOf(_)
DictOf(list) ==
    IF list = <<>> THEN EmptyDict
    ELSE LET n == Len(list)
             d == DictOf(SubSeq(list, 1, n - 1))
             id == list[n]["identifier"]
         IN [keys |-> IF Has(d.val, id) THEN d.keys ELSE Append(d.keys, id),
             val |-> Put(d.val, id, list[n])]

-----------------------------------------------------------------------------
(* The inputs of a run: command line, archive, and the output tree as found *)

SeqsUpTo(S, n) == UNION {[1..m -> S] : m \in 0..n}

Word(w) == [pre |-> "", id |-> w]
PhotoRef(id) == [pre |-> PhotoPrefix, id |-> id]
PdfRef(id) == [pre |-> PdfPrefix, id |-> id]

Absent == <<>>
Optional(key, S) == {Absent} \cup {key :> v : v \in S}

UuidUpper == <<"A", "B", "1">>
UuidLower == <<"a", "b", "1">>
UuidOther == <<"c", "d", "2">>
Morning == <<"2023-05-01", "T10:00:00Z">>
Evening == <<"2023-05-01", "T23:30:00Z">>
NextDay == <<"2023-05-02", "T10:00:00Z">>

Header(u, c) == [uuid |-> u, creationDate |-> c]

PhotoRecords ==
    {[identifier |-> "p1"] @@ m @@ t :
        m \in Optional("md5", {"m1"}), t \in Optional("type", {"jpg"})}
    \cup {[identifier |-> "p2", md5 |-> "m2"]}

PdfRecords ==
    {[identifier |-> "q1"] @@ m @@ t :
        m \in Optional("md5", {"m1"}), t \in Optional("type", {"jpg"})}
    \cup {[identifier |-> "q2", md5 |-> "m2"]}

OnePhoto == <<[identifier |-> "p1", md5 |-> "m1", type |-> "jpg"]>>
OnePdf == <<[identifier |-> "q1", md5 |-> "m1"]>>

\* every file a photo or PDF record of the model can name
AllMedia ==
    {<<"photos", m \o e>> : m \in {"m1", "m2", "stubbed_basename"}, e \in {".jpg", ".jpeg"}}
    \cup {<<"pdfs", m \o e>> : m \in {"m1", "m2", "stubbed_basename"}, e \in {".jpg", ".pdf"}}

SomeMedia == {<<"photos", "m1.jpg">>, <<"pdfs", "m1.pdf">>, <<"pdfs", "m1.jpg">>}

MediaChoices == {{}, SomeMedia, AllMedia}

Root == <<"out">>

Scenario(j, z, m, js, es, ex) ==
    [journal |-> j, isZip |-> z, members |-> m, json |-> js, entries |-> es,
     existing |-> ex]

\* entries that differ in their attachments and placeholders
PhotoEntries ==
    {Header(UuidUpper, Morning) @@ t @@ p @@ q :
        t \in Optional("text", SeqsUpTo({Word("Hello"), PhotoRef("p1"), PhotoRef("p2")},
                                        MaxTokens)),
        p \in Optional("photos", SeqsUpTo(PhotoRecords, MaxAttachments)),
        q \in Optional("pdfAttachments", {OnePdf})}

PdfEntries ==
    {Header(UuidUpper, Morning) @@ t @@ p @@ q :
        t \in Optional("text", SeqsUpTo({Word("See"), PdfRef("q1"), PdfRef("q2")},
                                        MaxTokens)),
        p \in Optional("photos", {OnePhoto}),
        q \in Optional("pdfAttachments", SeqsUpTo(PdfRecords, MaxAttachments))}

MixedEntries ==
    {Header(UuidUpper, Morning) @@ ("text" :> t) @@ p @@ q :
        t \in SeqsUpTo({PhotoRef("p1"), PhotoRef("p2"), PdfRef("q1"), PdfRef("q2")},
                       MaxTokens),
        p \in Optional("photos", {OnePhoto}),
        q \in Optional("pdfAttachments",
                       {OnePdf, <<[identifier |-> "q1", md5 |-> "m1", type |-> "jpg"]>>})}

AttachmentScenarios ==
    {Scenario("", TRUE, {<<"Journal.json">>} \cup m, "ok", <<e>>, {}) :
        e \in PhotoEntries \cup PdfEntries \cup MixedEntries, m \in MediaChoices}

\* entries that differ in their metadata fields
Locations ==
    {[placeName |-> "Home"], [placeName |-> "Home", title |-> "Old"],
     [latitude |-> "48.1"], [placeName |-> "Home", latitude |-> "48.1"]}

MetadataEntries ==
    {Header(UuidUpper, Morning) @@ t @@ r @@ p @@ q @@ l @@ g @@ d :
        t \in Optional("text", {<<Word("Hello")>>}),
        r \in Optional("richText", {"{rich}"}),
        p \in Optional("photos", {OnePhoto}),
        q \in Optional("pdfAttachments", {OnePdf}),
        l \in Optional("location", Locations),
        g \in Optional("tags", {"travel"}),
        d \in Optional("date", {NextDay})}

MetadataScenarios ==
    {Scenario("", TRUE, {<<"Journal.json">>} \cup SomeMedia, "ok", <<e>>, {}) :
        e \in MetadataEntries}

\* the command line and the archive itself
PlainEntry == Header(UuidUpper, Morning) @@ ("text" :> <<Word("Hello")>>)

CommandLineScenarios ==
    {Scenario(j, z, m, js, es, ex) :
        j \in {NoneValue, "", "Work"},
        z \in BOOLEAN,
        m \in SUBSET {<<"Journal.json">>, <<"Work.json">>},
        js \in {"ok", "malformed"},
        es \in {<<>>, <<PlainEntry>>},
        ex \in {{}, {Root \o <<PostDirName(PlainEntry)>>},
                {Root \o <<"Work", PostDirName(PlainEntry)>>}}}

\* documents of several entries
Bodies ==
    { \* placeholder of a photo of the entry, source file in the archive
      [text |-> <<Word("Hello"), PhotoRef("p1")>>, photos |-> OnePhoto],
      \* no body text, a photo record without md5
      [photos |-> <<[identifier |-> "p1"]>>],
      \* a PDF placeholder of no record, and a PDF whose file is not in the archive
      [text |-> <<PdfRef("q2")>>,
       pdfAttachments |-> <<[identifier |-> "q1", md5 |-> "m2"]>>],
      \* a photo placeholder of no record
      [text |-> <<PhotoRef("p2")>>, photos |-> OnePhoto] }

Headers ==
    {<<UuidUpper, Morning>>, <<UuidLower, Evening>>, <<UuidOther, Morning>>,
     <<UuidLower, NextDay>>}

JournalEntries == {Header(h[1], h[2]) @@ b : h \in Headers, b \in Bodies}

PlainEntries == {Header(h[1], h[2]) @@ ("text" :> <<Word("Hello")>>) : h \in Headers}

\* the second set: a directory of the first day is there before the run
JournalScenarios ==
    {Scenario("", TRUE, {<<"Journal.json">>} \cup SomeMedia, "ok", es, {}) :
        es \in SeqsUpTo(JournalEntries, MaxEntries)}
    \cup {Scenario("", TRUE, {<<"Journal.json">>}, "ok", es,
                   {Root \o <<"2023-05-01-ab1">>}) :
            es \in SeqsUpTo(PlainEntries, MaxEntries)}

Scenarios ==
    AttachmentScenarios \cup MetadataScenarios \cup CommandLineScenarios
        \cup JournalScenarios

Init ==
    \E s \in Scenarios :
        /\ options = [journal |-> s.journal, destination |-> Root]
        /\ archive = [isZip |-> s.isZip, members |-> s.members, json |-> s.json,
                      entries |-> s.entries]
        /\ disk = [d \in s.existing |-> [files |-> {}, index |-> <<>>]]
        /\ tmp = [exists |-> FALSE, files |-> {}, finalizer |-> FALSE,
                  created |-> 0, removed |-> 0]
        /\ pc = "select"
        /\ exc = ""
        /\ status = <<>>
        /\ journal_js = ""
        /\ destination = <<>>
        /\ data = <<>>
        /\ i = 0
        /\ post_directory = <<>>
        /\ content = <<>>
        /\ photos = EmptyDict
        /\ pdfs = EmptyDict
        /\ k = 0
        /\ log = <<>>
        /\ made = <<>>

-----------------------------------------------------------------------------
(* main(), lines 99-112, and Zip *)

Raise(e, at) == exc' = e /\ pc' = at

\* lines 101-107; options.journal is None when --journal is not given
SelectJournal ==
    /\ pc = "select"
    /\ IF options.journal # ""
       THEN IF options.journal = NoneValue
            THEN \* None + ".json"
                 /\ Raise("TypeError", "exit")
                 /\ UNCHANGED <<journal_js, destination>>
            ELSE /\ journal_js' = options.journal \o ".json"
                 /\ destination' = options.destination \o <<options.journal>>
                 /\ pc' = "enter"
                 /\ UNCHANGED exc
       ELSE /\ journal_js' = "Journal.json"
            /\ destination' = options.destination
            /\ pc' = "enter"
            /\ UNCHANGED exc
    /\ UNCHANGED <<options, archive, disk, tmp, status, data, i, post_directory,
                   content, photos, pdfs, k, log, made>>

\* Zip.__enter__: the directory is created before the archive is opened, and
\* an exception here leaves the with statement without calling __exit__
ZipEnter ==
    /\ pc = "enter"
    /\ IF archive.isZip
       THEN /\ tmp' = [tmp EXCEPT !.exists = TRUE, !.finalizer = TRUE,
                                  !.created = @ + 1, !.files = archive.members]
            /\ pc' = "load"
            /\ UNCHANGED exc
       ELSE /\ tmp' = [tmp EXCEPT !.exists = TRUE, !.finalizer = TRUE,
                                  !.created = @ + 1]
            /\ Raise("BadZipFile", "exit")
    /\ UNCHANGED <<options, archive, disk, status, journal_js, destination, data, i,
                   post_directory, content, photos, pdfs, k, log, made>>

\* TemporaryDirectory.cleanup(): detaches the finalizer, removes the tree
Cleanup(t) ==
    [t EXCEPT !.exists = FALSE, !.files = {}, !.finalizer = FALSE,
              !.removed = IF t.exists THEN @ + 1 ELSE @]

\* Zip.__exit__, on the normal and on the exceptional way out of the with body
ZipExit ==
    /\ pc = "zip_exit"
    /\ tmp' = Cleanup(tmp)
    /\ pc' = "exit"
    /\ UNCHANGED <<options, archive, disk, exc, status, journal_js, destination,
                   data, i, post_directory, content, photos, pdfs, k, log, made>>

\* a directory from tempfile.mkdtemp(): nothing removes it implicitly
NoImplicitCleanup(t) == t

\* the weakref.finalize of a TemporaryDirectory that was never cleaned up runs
\* no later than interpreter shutdown
ImplicitCleanup(t) == IF t.finalizer THEN Cleanup(t) ELSE t

\* the process ends: status 1 when an exception left main()
Exit ==
    /\ pc = "exit"
    /\ tmp' = ImplicitCleanup(tmp)
    /\ status' = IF exc = "" THEN <<0>> ELSE <<1>>
    /\ pc' = "done"
    /\ UNCHANGED <<options, archive, disk, exc, journal_js, destination, data, i,
                   post_directory, content, photos, pdfs, k, log, made>>

\* lines 110-112
LoadDocument ==
    /\ pc = "load"
    /\ IF <<journal_js>> \notin tmp.files
       THEN Raise("FileNotFoundError", "zip_exit") /\ UNCHANGED data
       ELSE IF archive.json # "ok"
            THEN Raise("JSONDecodeError", "zip_exit") /\ UNCHANGED data
            ELSE data' = archive.entries /\ pc' = "for" /\ UNCHANGED exc
    /\ UNCHANGED <<options, archive, disk, tmp, status, journal_js, destination, i,
                   post_directory, content, photos, pdfs, k, log, made>>

-----------------------------------------------------------------------------
(* main(), lines 114-218: the loop over the entries *)

Post == data[i]

Line(msg, uuid, id, src, dst) ==
    [msg |-> msg, uuid |-> uuid, id |-> id, src |-> src, dst |-> dst]

\* copy_failure with the two paths exchanged
CopyFailureSwapped(uuid, src, dst) == Line("attachment copy failed", uuid, "", dst, src)

\* copy_failure, lines 78-83
CopyFailure(uuid, src, dst) == Line("attachment copy failed", uuid, "", src, dst)

\* the directory of the extracted archive, as a path
TmpName == <<"tmp">>

\* lines 114-120 with os.makedirs(post_directory, exist_ok=True)
ForEntryExistOk ==
    /\ pc = "for"
    /\ IF i = Len(data)
       THEN /\ pc' = "zip_exit"
            /\ UNCHANGED <<i, post_directory, disk, made>>
       ELSE LET post == data[i + 1]
                dir == destination \o <<PostDirName(post)>>
            IN /\ i' = i + 1
               /\ post_directory' = dir
               /\ IF dir \in DOMAIN disk
                  THEN UNCHANGED <<disk, made>>
                  ELSE /\ disk' = disk @@ (dir :> [files |-> {}, index |-> <<>>])
                       /\ made' = Append(made, dir)
               /\ pc' = "text"
    /\ UNCHANGED <<options, archive, tmp, exc, status, journal_js, destination, data,
                   content, photos, pdfs, k, log>>

\* lines 114-120: the next entry and its directory; os.makedirs raises
\* FileExistsError when the directory is there
ForEntry ==
    /\ pc = "for"
    /\ IF i = Len(data)
       THEN /\ pc' = "zip_exit"
            /\ UNCHANGED <<i, post_directory, disk, made, exc>>
       ELSE LET post == data[i + 1]
                dir == destination \o <<PostDirName(post)>>
            IN /\ i' = i + 1
               /\ post_directory' = dir
               /\ IF dir \in DOMAIN disk
                  THEN Raise("FileExistsError", "zip_exit") /\ UNCHANGED <<disk, made>>
                  ELSE /\ disk' = disk @@ (dir :> [files |-> {}, index |-> <<>>])
                       /\ made' = Append(made, dir)
                       /\ pc' = "text"
                       /\ UNCHANGED exc
    /\ UNCHANGED <<options, archive, tmp, status, journal_js, destination, data,
                   content, photos, pdfs, k, log>>

\* lines 122-126 without the except clause
GetTextUncaught ==
    /\ pc = "text"
    /\ IF Has(Post, "text")
       THEN content' = Post["text"] /\ pc' = "photos" /\ UNCHANGED exc
       ELSE Raise("KeyError", "zip_exit") /\ UNCHANGED content
    /\ UNCHANGED <<options, archive, disk, tmp, status, journal_js, destination,
                   data, i, post_directory, photos, pdfs, k, log, made>>

\* lines 122-126
GetText ==
    /\ pc = "text"
    /\ IF Has(Post, "text")
       THEN content' = Post["text"] /\ UNCHANGED log
       ELSE /\ content' = <<>>
            /\ log' = Append(log, Line("post without text", Post["uuid"], "", <<>>, <<>>))
    /\ pc' = "photos"
    /\ UNCHANGED <<options, archive, disk, tmp, exc, status, journal_js, destination,
                   data, i, post_directory, photos, pdfs, k, made>>

\* lines 128-135
BuildPhotos ==
    /\ pc = "photos"
    /\ IF Has(Post, "photos")
       THEN photos' = DictOf(Post["photos"]) /\ pc' = "photo_copy"
       ELSE photos' = EmptyDict /\ pc' = "pdfs"
    /\ k' = 1
    /\ UNCHANGED <<options, archive, disk, tmp, exc, status, journal_js, destination,
                   data, i, post_directory, content, pdfs, log, made>>

\* shutil.copy(src, dst) of a file that is there
CopyInto(dir, basename) == [disk EXCEPT ![dir].files = @ \cup {basename}]

\* lines 137-152: one turn of the loop over photos.items()
PhotoCopy ==
    /\ pc = "photo_copy"
    /\ k <= Len(photos.keys)
    /\ LET id == photos.keys[k]
           rec == photos.val[id]
       IN IF ~Has(rec, "md5")
          THEN /\ log' = Append(log, Line("photo without md5", Post["uuid"], "", <<>>, <<>>))
               /\ photos' = [photos EXCEPT !.val[id] = Put(rec, "md5", "stubbed_basename")]
               /\ UNCHANGED disk
          ELSE IF PhotoPath(rec) \in tmp.files
               THEN /\ disk' = CopyInto(post_directory, PhotoBasename(rec))
                    /\ UNCHANGED <<log, photos>>
               ELSE /\ log' = Append(log, CopyFailure(Post["uuid"], TmpName \o PhotoPath(rec),
                                                      post_directory \o <<PhotoBasename(rec)>>))
                    /\ UNCHANGED <<disk, photos>>
    /\ k' = k + 1
    /\ UNCHANGED <<options, archive, tmp, pc, exc, status, journal_js, destination,
                   data, i, post_directory, content, pdfs, made>>

\* re.sub("dayone-moment://([0-9a-zA-Z]+)", photo_replacement, content)
PhotoMatches(text) == {n \in 1..Len(text) : text[n].pre = PhotoPrefix}

\* photo_replacement, lines 154-155
PhotoReplacement(dict, id) == PhotoBasename(dict.val[id])

\* lines 154-159 inside try/except KeyError: continue
PhotoSubSkipsEntry ==
    /\ pc = "photo_copy"
    /\ k > Len(photos.keys)
    /\ IF \E n \in PhotoMatches(content) : ~Has(photos.val, content[n].id)
       THEN pc' = "for" /\ UNCHANGED content
       ELSE /\ content' = [n \in 1..Len(content) |->
                              IF n \in PhotoMatches(content)
                              THEN Word(PhotoReplacement(photos, content[n].id))
                              ELSE content[n]]
            /\ pc' = "pdfs"
    /\ UNCHANGED <<options, archive, disk, tmp, exc, status, journal_js, destination,
                   data, i, post_directory, photos, pdfs, k, log, made>>

\* lines 154-159: photos[match.group(1)] raises KeyError for an unknown identifier
PhotoSub ==
    /\ pc = "photo_copy"
    /\ k > Len(photos.keys)
    /\ IF \E n \in PhotoMatches(content) : ~Has(photos.val, content[n].id)
       THEN Raise("KeyError", "zip_exit") /\ UNCHANGED content
       ELSE /\ content' = [n \in 1..Len(content) |->
                              IF n \in PhotoMatches(content)
                              THEN Word(PhotoReplacement(photos, content[n].id))
                              ELSE content[n]]
            /\ pc' = "pdfs"
            /\ UNCHANGED exc
    /\ UNCHANGED <<options, archive, disk, tmp, status, journal_js, destination, data,
                   i, post_directory, photos, pdfs, k, log, made>>

\* lines 161-168
BuildPdfs ==
    /\ pc = "pdfs"
    /\ IF Has(Post, "pdfAttachments")
       THEN pdfs' = DictOf(Post["pdfAttachments"]) /\ pc' = "pdf_copy"
       ELSE pdfs' = EmptyDict /\ pc' = "write"
    /\ k' = 1
    /\ UNCHANGED <<options, archive, disk, tmp, exc, status, journal_js, destination,
                   data, i, post_directory, content, photos, log, made>>

\* lines 170-185: one turn of the loop over pdfs.items()
PdfCopy ==
    /\ pc = "pdf_copy"
    /\ k <= Len(pdfs.keys)
    /\ LET id == pdfs.keys[k]
           rec == pdfs.val[id]
       IN IF ~Has(rec, "md5")
          THEN /\ log' = Append(log, Line("pdf without md5", Post["uuid"], "", <<>>, <<>>))
               /\ pdfs' = [pdfs EXCEPT !.val[id] = Put(rec, "md5", "stubbed_basename")]
               /\ UNCHANGED disk
          ELSE IF PdfPath(rec) \in tmp.files
               THEN /\ disk' = CopyInto(post_directory, PdfBasename(rec))
                    /\ UNCHANGED <<log, pdfs>>
               ELSE /\ log' = Append(log, CopyFailure(Post["uuid"], TmpName \o PdfPath(rec),
                                                      post_directory \o <<PdfBasename(rec)>>))
                    /\ UNCHANGED <<disk, pdfs>>
    /\ k' = k + 1
    /\ UNCHANGED <<options, archive, tmp, pc, exc, status, journal_js, destination,
                   data, i, post_directory, content, photos, made>>

\* re.sub("dayone-moment:/pdfAttachment/([0-9a-zA-Z]+)", pdf_replacement, content)
PdfMatches(text) == {n \in 1..Len(text) : text[n].pre = PdfPrefix}

\* the matches whose identifier pdf_replacement does not find, in text order
RECURSIVE MissingPdfLines(_, _)
MissingPdfLines(dict, text) ==
    IF text = <<>> THEN <<>>
    ELSE (IF Head(text).pre = PdfPrefix /\ ~Has(dict.val, Head(text).id)
          THEN <<Line("missing pdf", <<>>, Head(text).id, <<>>, <<>>)>>
          ELSE <<>>) \o MissingPdfLines(dict, Tail(text))

\* pdf_replacement, lines 187-192
PdfReplacement(dict, id) ==
    IF Has(dict.val, id) THEN PdfBasename(dict.val[id]) ELSE "missing_pdf"

\* lines 187-198
PdfSub ==
    /\ pc = "pdf_copy"
    /\ k > Len(pdfs.keys)
    /\ content' = [n \in 1..Len(content) |->
                      IF n \in PdfMatches(content)
                      THEN Word(PdfReplacement(pdfs, content[n].id))
                      ELSE content[n]]
    /\ log' = log \o MissingPdfLines(pdfs, content)
    /\ pc' = "write"
    /\ UNCHANGED <<options, archive, disk, tmp, exc, status, journal_js, destination,
                   data, i, post_directory, photos, pdfs, k, made>>

\* the list of line 203 without richText
ExtraneousShort == {"text", "photos", "creationDate", "pdfAttachments"}

\* lines 203-205
Extraneous == {"text", "richText", "photos", "creationDate", "pdfAttachments"}

\* lines 207-210: KeyError (no location, or no placeName in it) is passed over
WithLocationTitle(m) ==
    IF Has(m, "location") /\ Has(m["location"], "placeName")
    THEN [m EXCEPT !["location"] = Put(@, "title", @["placeName"])]
    ELSE m

\* lines 200-210
Metadata(post) ==
    LET m1 == Put(post, "date", post["creationDate"])
        m2 == [j \in DOMAIN m1 \ Extraneous |-> m1[j]]
    IN WithLocationTitle(m2)

\* lines 200-218: index.md is opened for writing and holds front matter and body
WriteIndex ==
    /\ pc = "write"
    /\ disk' = [disk EXCEPT ![post_directory].index =
                    <<[metadata |-> Metadata(Post), content |-> content]>>]
    /\ pc' = "for"
    /\ UNCHANGED <<options, archive, tmp, exc, status, journal_js, destination, data,
                   i, post_directory, content, photos, pdfs, k, log, made>>

Next ==
    \/ SelectJournal
    \/ ZipEnter
    \/ LoadDocument
    \/ ForEntry
    \/ GetText
    \/ BuildPhotos
    \/ PhotoCopy
    \/ PhotoSub
    \/ BuildPdfs
    \/ PdfCopy
    \/ PdfSub
    \/ WriteIndex
    \/ ZipExit
    \/ Exit

Spec == Init /\ [][Next]_vars

-----------------------------------------------------------------------------
(* What the properties below read off a state *)

Done == pc = "done"

\* entry n of the document is the one whose directory is made[n]: a directory
\* is made for every entry the loop reaches, and the loop stops at a collision
Written(n) == n \in 1..Len(made) /\ disk[made[n]].index # <<>>
Body(n) == disk[made[n]].index[1].content
FrontMatter(n) == disk[made[n]].index[1].metadata
FilesOf(n) == disk[made[n]].files

Logged(l) == \E n \in 1..Len(log) : log[n] = l

RecordsOf(e, field) == IF Has(e, field) THEN e[field] ELSE <<>>

\* the record a dict built from `list` holds for `id`: the last one
LastRecord(list, id) ==
    list[CHOOSE n \in 1..Len(list) :
            /\ list[n]["identifier"] = id
            /\ \A m \in (n + 1)..Len(list) : list[m]["identifier"] # id]

Listed(list, id) == \E n \in 1..Len(list) : list[n]["identifier"] = id

\* <md5>.<type> as the specification spells it
NameOf(rec, defaultType) ==
    (IF Has(rec, "md5") THEN rec["md5"] ELSE "stubbed_basename")
        \o "." \o (IF Has(rec, "type") THEN rec["type"] ELSE defaultType)

TokensOf(e) == IF Has(e, "text") THEN e["text"] ELSE <<>>

-----------------------------------------------------------------------------
(* C1: whether --journal is given and non-empty, given and empty, or omitted,
   the run gets past the choice of the document without raising; the document
   is <name>.json and the entries go under <destination>/<name> in the first
   case, Journal.json and <destination> in the other two. *)
C1_JournalSelection ==
    pc # "select" =>
        /\ exc # "TypeError"
        /\ IF options.journal \in {NoneValue, ""}
           THEN /\ journal_js = "Journal.json"
                /\ \A n \in 1..Len(made) : SubSeq(made[n], 1, Len(made[n]) - 1) = Root
           ELSE /\ journal_js = options.journal \o ".json"
                /\ \A n \in 1..Len(made) :
                       SubSeq(made[n], 1, Len(made[n]) - 1) = Root \o <<options.journal>>

(* C2: in every index.md written, a PDF placeholder whose identifier is not
   among the entry's PDF records (the entry may have no pdfAttachments at
   all) reads missing_pdf, and a line naming the identifier was logged. *)
C2_MissingPdfSentinel ==
    \A n \in 1..Len(made) :
        Written(n) =>
            \A p \in 1..Len(TokensOf(data[n])) :
                LET t == TokensOf(data[n])[p]
                IN (t.pre = PdfPrefix /\ ~Listed(RecordsOf(data[n], "pdfAttachments"), t.id))
                   => /\ Body(n)[p] = Word("missing_pdf")
                      /\ Logged(Line("missing pdf", <<>>, t.id, <<>>, <<>>))

\* the photo placeholders of entry n that name a photo record of the entry
MatchedPhotoRefs(n) ==
    {p \in 1..Len(TokensOf(data[n])) :
        /\ TokensOf(data[n])[p].pre = PhotoPrefix
        /\ Listed(RecordsOf(data[n], "photos"), TokensOf(data[n])[p].id)}

PhotoOfRef(n, p) == LastRecord(data[n]["photos"], TokensOf(data[n])[p].id)

(* C3, as claimed: in every index.md written, each photo placeholder that
   names a photo record of the entry reads <md5>.<type> (type jpeg when the
   record has none), and a file of that name is in the entry's directory. *)
C3_PhotoReplacedAndCopied ==
    \A n \in 1..Len(made) :
        Written(n) =>
            \A p \in MatchedPhotoRefs(n) :
                /\ Body(n)[p] = Word(NameOf(PhotoOfRef(n, p), "jpeg"))
                /\ NameOf(PhotoOfRef(n, p), "jpeg") \in FilesOf(n)

(* C3, amended: each such placeholder reads <md5>.<type> of the last record
   with that identifier (md5 stubbed_basename when the record has none, type
   jpeg when it has none); the file of that name is in the entry's directory
   when the record has an md5 and photos/<name> is in the archive. *)
C3_PhotoReplaced ==
    \A n \in 1..Len(made) :
        Written(n) =>
            \A p \in MatchedPhotoRefs(n) :
                LET rec == PhotoOfRef(n, p)
                    name == NameOf(rec, "jpeg")
                IN /\ Body(n)[p] = Word(name)
                   /\ (Has(rec, "md5") /\ <<"photos", name>> \in archive.members)
                          => name \in FilesOf(n)

\* an index.md in which a placeholder of a record without type was replaced,
\* with the copied file beside it
C3_Witness ==
    \E n \in 1..Len(made) :
        /\ Written(n)
        /\ \E p \in MatchedPhotoRefs(n) :
              /\ ~Has(PhotoOfRef(n, p), "type")
              /\ Has(PhotoOfRef(n, p), "md5")
              /\ Body(n)[p] = Word("m1.jpeg")
              /\ "m1.jpeg" \in FilesOf(n)

(* C9: once an entry is written, every photo or PDF record of it without md5
   has its error line in the log, and its copy under the name
   stubbed_basename.<ext> was attempted: the file is in the entry's
   directory, or the failure of that copy is in the log. *)
C9_StubbedCopyAttempted ==
    \A n \in 1..Len(made) :
        Written(n) =>
            /\ \A r \in 1..Len(RecordsOf(data[n], "photos")) :
                  LET rec == LastRecord(data[n]["photos"], data[n]["photos"][r]["identifier"])
                      name == "stubbed_basename" \o PhotoExt(rec)
                  IN ~Has(rec, "md5") =>
                        /\ Logged(Line("photo without md5", data[n]["uuid"], "", <<>>, <<>>))
                        /\ \/ name \in FilesOf(n)
                           \/ Logged(Line("attachment copy failed", data[n]["uuid"], "",
                                          TmpName \o <<"photos", name>>, made[n] \o <<name>>))
            /\ \A r \in 1..Len(RecordsOf(data[n], "pdfAttachments")) :
                  LET rec == LastRecord(data[n]["pdfAttachments"],
                                        data[n]["pdfAttachments"][r]["identifier"])
                      name == "stubbed_basename" \o PdfExt(rec)
                  IN ~Has(rec, "md5") =>
                        /\ Logged(Line("pdf without md5", data[n]["uuid"], "", <<>>, <<>>))
                        /\ \/ name \in FilesOf(n)
                           \/ Logged(Line("attachment copy failed", data[n]["uuid"], "",
                                          TmpName \o <<"pdfs", name>>, made[n] \o <<name>>))

\* the placeholders of entry n that name a PDF record of the entry
MatchedPdfRefs(n) ==
    {p \in 1..Len(TokensOf(data[n])) :
        /\ TokensOf(data[n])[p].pre = PdfPrefix
        /\ Listed(RecordsOf(data[n], "pdfAttachments"), TokensOf(data[n])[p].id)}

PdfOfRef(n, p) == LastRecord(data[n]["pdfAttachments"], TokensOf(data[n])[p].id)

\* the turn of a copy loop that is about to run finds no source file
PhotoSourceMissing ==
    /\ pc = "photo_copy"
    /\ k <= Len(photos.keys)
    /\ Has(photos.val[photos.keys[k]], "md5")
    /\ <<"photos", NameOf(photos.val[photos.keys[k]], "jpeg")>> \notin archive.members

PdfSourceMissing ==
    /\ pc = "pdf_copy"
    /\ k <= Len(pdfs.keys)
    /\ Has(pdfs.val[pdfs.keys[k]], "md5")
    /\ <<"pdfs", NameOf(pdfs.val[pdfs.keys[k]], "pdf")>> \notin archive.members

C4_Step ==
    /\ PhotoSourceMissing =>
          LET name == NameOf(photos.val[photos.keys[k]], "jpeg")
          IN /\ log' = Append(log, Line("attachment copy failed", data[i]["uuid"], "",
                                        TmpName \o <<"photos", name>>,
                                        post_directory \o <<name>>))
             /\ disk' = disk
             /\ exc' = "" /\ pc' = "photo_copy" /\ k' = k + 1
    /\ PdfSourceMissing =>
          LET name == NameOf(pdfs.val[pdfs.keys[k]], "pdf")
          IN /\ log' = Append(log, Line("attachment copy failed", data[i]["uuid"], "",
                                        TmpName \o <<"pdfs", name>>,
                                        post_directory \o <<name>>))
             /\ disk' = disk
             /\ exc' = "" /\ pc' = "pdf_copy" /\ k' = k + 1

C4_Written ==
    /\ \A n \in 1..Len(made) :
          Written(n) =>
              /\ \A p \in MatchedPhotoRefs(n) :
                    Body(n)[p] = Word(NameOf(PhotoOfRef(n, p), "jpeg"))
              /\ \A p \in MatchedPdfRefs(n) :
                    Body(n)[p] = Word(NameOf(PdfOfRef(n, p), "pdf"))
    /\ (exc = "" /\ pc \in {"for", "zip_exit", "exit", "done"}) =>
          \A n \in 1..Len(made) : Written(n)

(* C4: a copy whose source file is not in the archive logs the copy failure
   with the entry's uuid, the source and the destination path, creates no
   file, raises nothing and leaves the loop at its next attachment; index.md
   is written all the same, with the placeholder replaced by the basename. *)
C4_MissingSourceTolerated == [][C4_Step]_vars /\ []C4_Written

\* index.md written with m1.jpg in the body, the copy failure of m1.jpg
\* logged, and no such file in the directory
C4_Witness ==
    \E n \in 1..Len(made) :
        /\ Written(n)
        /\ \E p \in MatchedPhotoRefs(n) : Body(n)[p] = Word("m1.jpg")
        /\ "m1.jpg" \notin FilesOf(n)
        /\ Logged(Line("attachment copy failed", data[n]["uuid"], "",
                       <<"tmp", "photos", "m1.jpg">>, made[n] \o <<"m1.jpg">>))

-----------------------------------------------------------------------------
\* the inputs of the run, read off any state (none of them is ever written)
Document == archive.entries

DocumentName ==
    IF options.journal = "" THEN "Journal.json" ELSE options.journal \o ".json"

LoadSucceeds ==
    /\ options.journal # NoneValue
    /\ archive.isZip
    /\ <<DocumentName>> \in archive.members
    /\ archive.json = "ok"

Range(f) == {f[x] : x \in DOMAIN f}

\* the directories that were there before the run
Preexisting == DOMAIN disk \ Range(made)

ExpectedRoot ==
    IF options.journal = "" THEN Root ELSE Root \o <<options.journal>>

ExpectedDir(n) ==
    ExpectedRoot \o <<Document[n]["creationDate"][1] \o "-" \o Cat(Lower(Document[n]["uuid"]))>>

Collides(n) ==
    \/ ExpectedDir(n) \in Preexisting
    \/ \E m \in 1..(n - 1) : ExpectedDir(m) = ExpectedDir(n)

\* the one condition of the model that is not recoverable: a photo
\* placeholder of no record, in an entry that has a photo list
UnknownPhotoRef(n) ==
    /\ Has(Document[n], "photos")
    /\ \E p \in 1..Len(TokensOf(Document[n])) :
          /\ TokensOf(Document[n])[p].pre = PhotoPrefix
          /\ ~Listed(Document[n]["photos"], TokensOf(Document[n])[p].id)

OnlyRecoverable ==
    /\ LoadSucceeds
    /\ \A n \in 1..Len(Document) : ~Collides(n) /\ ~UnknownPhotoRef(n)

(* C5: when the archive and the document load, no entry directory collides
   and nothing but the recoverable conditions occurs, the run ends with no
   exception and status 0, having made the directory of every entry in
   document order, each with an index.md; the index.md of an entry without
   text has an empty body and front matter that is not empty. *)
C5_RecoverableRunCompletes ==
    (Done /\ OnlyRecoverable) =>
        /\ exc = ""
        /\ status = <<0>>
        /\ i = Len(Document)
        /\ Len(made) = Len(Document)
        /\ \A n \in 1..Len(Document) :
              /\ made[n] = ExpectedDir(n)
              /\ Written(n)
              /\ FrontMatter(n)["uuid"] = Document[n]["uuid"]
              /\ ~Has(Document[n], "text") =>
                    Body(n) = <<>> /\ DOMAIN FrontMatter(n) # {}

\* a finished run of two entries that met every recoverable condition
C5_Witness ==
    /\ Done /\ OnlyRecoverable
    /\ Len(Document) = 2
    /\ Logged(Line("post without text", Document[1]["uuid"], "", <<>>, <<>>))
    /\ Logged(Line("photo without md5", Document[1]["uuid"], "", <<>>, <<>>))
    /\ Logged(Line("missing pdf", <<>>, "q2", <<>>, <<>>))
    /\ \E n \in 1..Len(log) : log[n].msg = "attachment copy failed"
    /\ status = <<0>>

-----------------------------------------------------------------------------
\* the first entry whose directory is already there
FirstCollision(n) == Collides(n) /\ \A m \in 1..(n - 1) : ~Collides(m)

C6_Stopped ==
    \A n \in 1..i :
        Collides(n) =>
            /\ exc = "FileExistsError"
            /\ i = n
            /\ Len(made) = n - 1
            /\ \A m \in 1..(n - 1) : made[m] = ExpectedDir(m) /\ Written(m)
            /\ post_directory = ExpectedDir(n)
            /\ ExpectedDir(n) \in Preexisting =>
                  disk[ExpectedDir(n)] = [files |-> {}, index |-> <<>>]
            /\ \A m \in 1..(n - 1) :
                  ExpectedDir(m) = ExpectedDir(n) =>
                      disk[ExpectedDir(n)].index[1].metadata["uuid"] = Document[m]["uuid"]
            /\ pc \in {"zip_exit", "exit", "done"}
            /\ Done => status = <<1>>

(* C6: when the directory <date of creationDate>-<lower-cased uuid> of an
   entry is already there (found before the run, or made for an earlier
   entry of the run), the run stops at that entry with FileExistsError and
   status 1: no directory is made, nothing copied and no index.md written for
   it or any later entry, and from the error on the output tree does not
   change, the earlier entries keeping their index.md. *)
C6_CollisionStopsRun ==
    [][exc' = "FileExistsError" => (disk' = disk /\ made' = made)]_vars /\ []C6_Stopped

\* stopped at the second entry, whose uuid differs from the first in case only
C6_Witness ==
    /\ Done
    /\ exc = "FileExistsError"
    /\ i = 2
    /\ Document[1]["uuid"] # Document[2]["uuid"]
    /\ Document[1]["creationDate"] # Document[2]["creationDate"]
    /\ Written(1)
    /\ Len(made) = 1

(* C7: the temporary directory is created at most once, exactly once in a
   run that reaches the with statement, and never removed more often than
   created; when the process has ended, however it ended (normally, with an
   exception from the with body, or with one from opening the archive), the
   directory was removed exactly once and does not exist. *)
C7_TemporaryDirectoryRemoved ==
    /\ tmp.created <= 1
    /\ tmp.removed <= tmp.created
    /\ tmp.exists <=> (tmp.created = 1 /\ tmp.removed = 0)
    /\ (pc \in {"load", "for", "text", "photos", "photo_copy", "pdfs", "pdf_copy",
                "write", "zip_exit"}) => tmp.exists
    /\ Done =>
          /\ ~tmp.exists
          /\ tmp.removed = tmp.created
          /\ tmp.created = IF options.journal = NoneValue THEN 0 ELSE 1

\* the run ended on an archive that could not be opened
C7_Witness ==
    /\ Done
    /\ exc = "BadZipFile"
    /\ tmp.created = 1
    /\ tmp.removed = 1

(* C8: the front matter of every index.md has the keys of the entry without
   text, richText, photos, pdfAttachments and creationDate, and date; date is
   the creationDate of the entry; a location with placeName is the entry's
   location with title set to placeName; every other field is the entry's. *)
C8_FrontMatter ==
    \A n \in 1..Len(made) :
        Written(n) =>
            LET e == Document[n]
                m == FrontMatter(n)
            IN /\ DOMAIN m = (DOMAIN e \ {"text", "richText", "photos", "pdfAttachments",
                                          "creationDate"}) \cup {"date"}
               /\ m["date"] = e["creationDate"]
               /\ \A key \in DOMAIN m \ {"date", "location"} : m[key] = e[key]
               /\ Has(e, "location") =>
                     IF Has(e["location"], "placeName")
                     THEN /\ DOMAIN m["location"] = DOMAIN e["location"] \cup {"title"}
                          /\ m["location"]["title"] = e["location"]["placeName"]
                          /\ \A key \in DOMAIN e["location"] \ {"title"} :
                                m["location"][key] = e["location"][key]
                     ELSE m["location"] = e["location"]

\* an entry with every field that is dropped, a date of its own and a
\* location whose title differs from its placeName
C8_Witness ==
    \E n \in 1..Len(made) :
        /\ Written(n)
        /\ {"text", "richText", "photos", "pdfAttachments", "date", "tags"}
               \subseteq DOMAIN Document[n]
        /\ Has(Document[n], "location")
        /\ Document[n]["location"] = [placeName |-> "Home", title |-> "Old"]
        /\ FrontMatter(n)["location"]["title"] = "Home"

(* C10: every directory the run made, except the last one, holds index.md;
   the last one lacks it only while its entry is being processed or after the
   run was aborted in it; an entry's directory is empty until its photos are
   copied, photo placeholders are rewritten before the PDFs are handled and
   PDF placeholders before index.md is written. *)
C10_OnlyCurrentEntryIncomplete ==
    /\ \A n \in 1..Len(made) :
          ~Written(n) =>
              /\ n = Len(made)
              /\ n = i
              /\ made[n] = post_directory
              /\ \/ pc \in {"text", "photos", "photo_copy", "pdfs", "pdf_copy", "write"}
                 \/ exc # "" /\ pc \in {"zip_exit", "exit", "done"}
    /\ pc \in {"text", "photos"} => disk[post_directory] = [files |-> {}, index |-> <<>>]
    /\ (pc \in {"pdfs", "pdf_copy", "write"} /\ Has(data[i], "photos")) =>
          \A p \in 1..Len(content) : content[p].pre # PhotoPrefix
    /\ (pc = "write" /\ Has(data[i], "pdfAttachments")) =>
          \A p \in 1..Len(content) : content[p].pre # PdfPrefix

\* aborted in the second entry by a photo placeholder of no record
C10_Witness ==
    /\ Done
    /\ exc = "KeyError"
    /\ Len(made) = 2
    /\ Written(1)
    /\ ~Written(2)

====
